---- MODULE Spec2Model ----
(***************************************************************************)
(* CrosswordCreator (generate.py): node consistency, AC-3 and backtracking *)
(* search with inference, as a state machine over one call of solve().     *)
(*                                                                         *)
(* A word is a tuple of one-letter strings.  Python's set iteration order  *)
(* (hash-seed dependent for strings and for Variable objects) is a         *)
(* nondeterministic choice of an enumeration of the set each time the code *)
(* iterates one.  Character indices are 0-based as in the source.          *)
(***************************************************************************)
EXTENDS Naturals, Sequences, FiniteSets

VARIABLES
    crossword,    \* self.crossword: variables, length, overlaps, words
    domains,      \* self.domains: variable -> set of words
    assignment,   \* the dict passed down backtrack(): assigned variable -> word
    pc,           \* position in solve(): node, arcs, ac3, ac3ret, enter, loop, done
                  \* (op, called: before and after a method called on its own)
    queue,        \* ac3's local work list of arcs <<x, y>>
    ac3Kind,      \* which call of ac3 is running or ran last: none, initial, inference
    ac3Result,    \* return value of the last ac3 call
    emptied,      \* history: a revise of the current ac3 run took a domain to empty
    lastRevise,   \* history: arguments and outcome of the last revise call
    lastConsistent, \* history: argument and outcome of the last consistent call
    lastSelect,   \* history: argument and outcome of the last
                  \* select_unassigned_variable call
    lastOrder,    \* history: arguments and outcome of the last
                  \* order_domain_values call
    stack,        \* backtrack frames: var, values still to try, domains_backup,
                  \* and (history) the domains and assignment at entry
    result        \* what solve() did: pending, assignment, none, error

vars == <<crossword, domains, assignment, pc, queue, ac3Kind, ac3Result,
          emptied, lastRevise, lastConsistent, lastSelect, lastOrder, stack,
          result>>

----------------------------------------------------------------------------
(* Words *)

car == <<"c", "a", "r">>
ace == <<"a", "c", "e">>
dog == <<"d", "o", "g">>
cat == <<"c", "a", "t">>
eel == <<"e", "e", "l">>
arm == <<"a", "r", "m">>
to  == <<"t", "o">>

Pool == {car, ace, dog, cat, eel, arm, to}

\* Largest word list drawn from Pool.
MaxWords == 3

None == <<>>
NoVar == "NoVar"

----------------------------------------------------------------------------
(* Puzzles *)

\* V1 ACROSS length 3 (row 0, columns 0-2), V2 DOWN length 3 (column 1,
\* rows 0-2): V1[1] is V2[0].
TwoCross ==
    [variables |-> {"V1", "V2"},
     length    |-> [v \in {"V1", "V2"} |-> 3],
     overlaps  |-> [p \in {"V1", "V2"} \X {"V1", "V2"} |->
                      IF p = <<"V1", "V2">> THEN <<1, 0>>
                      ELSE IF p = <<"V2", "V1">> THEN <<0, 1>>
                      ELSE None]]

\* V1 and V2 as in TwoCross, and V3 ACROSS length 3 (row 2, columns 1-3):
\* V2[2] is V3[0].  V1 and V3 do not meet.
Chain ==
    [variables |-> {"V1", "V2", "V3"},
     length    |-> [v \in {"V1", "V2", "V3"} |-> 3],
     overlaps  |-> [p \in {"V1", "V2", "V3"} \X {"V1", "V2", "V3"} |->
                      IF p = <<"V1", "V2">> THEN <<1, 0>>
                      ELSE IF p = <<"V2", "V1">> THEN <<0, 1>>
                      ELSE IF p = <<"V2", "V3">> THEN <<2, 0>>
                      ELSE IF p = <<"V3", "V2">> THEN <<0, 2>>
                      ELSE None]]

\* Two slots that do not meet: V1 of length 3, V2 of length 2.
Apart ==
    [variables |-> {"V1", "V2"},
     length    |-> [v \in {"V1", "V2"} |-> IF v = "V1" THEN 3 ELSE 2],
     overlaps  |-> [p \in {"V1", "V2"} \X {"V1", "V2"} |-> None]]

\* One slot of length 3.
Lone ==
    [variables |-> {"V1"},
     length    |-> [v \in {"V1"} |-> 3],
     overlaps  |-> [p \in {"V1"} \X {"V1"} |-> None]]

Shapes == {TwoCross, Chain, Apart, Lone}

Chr(word, i) == word[i + 1]

neighbors(var) ==
    {v \in crossword.variables :
        v # var /\ crossword.overlaps[<<v, var>>] # None}

\* All enumerations of a finite set: the orders a set can be iterated in.
Perms(S) ==
    {s \in [1..Cardinality(S) -> S] :
        \A i, j \in 1..Cardinality(S) : i # j => s[i] # s[j]}

Range(s) == {s[i] : i \in 1..Len(s)}

----------------------------------------------------------------------------
(* The pure parts of CrosswordCreator *)

\* Mutant: only the words that are too short are removed.
enforce_node_consistency_shorter(doms) ==
    [var \in crossword.variables |->
        doms[var] \ {value \in crossword.words :
                        Len(value) < crossword.length[var]}]

\* enforce_node_consistency: remove every word whose length is not the
\* variable's.
enforce_node_consistency(doms) ==
    [var \in crossword.variables |->
        doms[var] \ {value \in crossword.words :
                        Len(value) # crossword.length[var]}]

\* The body of revise's loop from the k-th word of `order` (the iteration
\* order of domains[x].copy()): the word is removed and revised set, and when
\* some yvalue agrees it is added back and revised reset.  When x and y do
\* not cross, overlap is None and the comparison of the first yvalue raises
\* TypeError with the word already removed (raised); with domains[y] empty
\* the comparison is never reached.
RECURSIVE ReviseFrom(_, _, _, _, _, _)
ReviseFrom(order, k, dx, dy, overlap, revised) ==
    IF k > Len(order)
    THEN [dom |-> dx, revised |-> revised, raised |-> FALSE]
    ELSE LET xvalue == order[k]
             found  == \E yvalue \in dy :
                          Chr(xvalue, overlap[1]) = Chr(yvalue, overlap[2])
         IN  IF overlap = None /\ dy # {}
             THEN [dom |-> dx \ {xvalue}, revised |-> TRUE, raised |-> TRUE]
             ELSE IF found
             THEN ReviseFrom(order, k + 1, dx, dy, overlap, FALSE)
             ELSE ReviseFrom(order, k + 1, dx \ {xvalue}, dy, overlap, TRUE)

\* Mutant: the words are removed but revised is never set.
revise_unreported(doms, x, y, order) ==
    [dom |-> ReviseFrom(order, 1, doms[x], doms[y],
                        crossword.overlaps[<<x, y>>], FALSE).dom,
     revised |-> FALSE, raised |-> FALSE]

\* Mutant: a word is added back when some yvalue differs from it at the
\* overlap (!= for ==).
RECURSIVE ReviseDiffer(_, _, _, _, _, _)
ReviseDiffer(order, k, dx, dy, overlap, revised) ==
    IF k > Len(order)
    THEN [dom |-> dx, revised |-> revised, raised |-> FALSE]
    ELSE LET xvalue == order[k]
             found  == \E yvalue \in dy :
                          Chr(xvalue, overlap[1]) # Chr(yvalue, overlap[2])
         IN  IF found
             THEN ReviseDiffer(order, k + 1, dx, dy, overlap, FALSE)
             ELSE ReviseDiffer(order, k + 1, dx \ {xvalue}, dy, overlap, TRUE)

revise_differ(doms, x, y, order) ==
    ReviseDiffer(order, 1, doms[x], doms[y], crossword.overlaps[<<x, y>>], FALSE)

\* revise(x, y) on the domains `doms`, visiting domains[x] in `order`:
\* the new domains[x] and the returned flag.
revise(doms, x, y, order) ==
    ReviseFrom(order, 1, doms[x], doms[y], crossword.overlaps[<<x, y>>], FALSE)

\* Mutant: one variable short counts as complete.
assignment_complete_early(a) ==
    Cardinality(DOMAIN a) + 1 >= Cardinality(crossword.variables)

assignment_complete(a) ==
    Cardinality(DOMAIN a) = Cardinality(crossword.variables)

\* Mutant: the overlap check is left out.
consistent_no_overlap(a) ==
    IF \E element \in DOMAIN a : \E confront \in DOMAIN a \ {element} :
            a[element] = a[confront]
    THEN FALSE
    ELSE ~ \E element \in DOMAIN a :
                Len(a[element]) # crossword.length[element]

\* Mutant: the check that the words are distinct is left out.
consistent_no_distinct(a) ==
    IF \E element \in DOMAIN a :
            Len(a[element]) # crossword.length[element]
    THEN FALSE
    ELSE \A element \in DOMAIN a :
            \A neighbor \in neighbors(element) :
                neighbor \in DOMAIN a =>
                    LET overlap == crossword.overlaps[<<element, neighbor>>]
                    IN  Chr(a[element], overlap[1]) =
                            Chr(a[neighbor], overlap[2])

consistent(a) ==
    IF \E element \in DOMAIN a : \E confront \in DOMAIN a \ {element} :
            a[element] = a[confront]
    THEN FALSE
    ELSE IF \E element \in DOMAIN a :
                Len(a[element]) # crossword.length[element]
    THEN FALSE
    ELSE \A element \in DOMAIN a :
            \A neighbor \in neighbors(element) :
                neighbor \in DOMAIN a =>
                    LET overlap == crossword.overlaps[<<element, neighbor>>]
                    IN  Chr(a[element], overlap[1]) =
                            Chr(a[neighbor], overlap[2])

\* The count order_domain_values gives a value: over the neighbours not in
\* the assignment, the words of their domains that differ from it at the
\* overlap.
RECURSIVE CountOver(_, _, _, _)
CountOver(doms, var, value, todo) ==
    IF todo = {} THEN 0
    ELSE LET neighbor == CHOOSE n \in todo : TRUE
             overlap  == crossword.overlaps[<<var, neighbor>>]
         IN  Cardinality({confront \in doms[neighbor] :
                            Chr(value, overlap[1]) # Chr(confront, overlap[2])})
             + CountOver(doms, var, value, todo \ {neighbor})

\* Mutant: the assigned neighbours are counted too.
order_domain_values_all_neighbors(doms, var, a, order) ==
    LET count == [i \in 1..Len(order) |->
                    CountOver(doms, var, order[i], neighbors(var))]
        place == [i \in 1..Len(order) |->
                    1 + Cardinality({j \in 1..Len(order) :
                            \/ count[j] < count[i]
                            \/ count[j] = count[i] /\ j < i})]
    IN  [p \in 1..Len(order) |->
            order[CHOOSE i \in 1..Len(order) : place[i] = p]]

\* order_domain_values(var, assignment), with `order` the order in which
\* values.pop() empties the copy of domains[var].  helper_list.sort(key =
\* count) is stable: an entry comes after the entries of smaller count and
\* after the earlier entries of equal count.
order_domain_values(doms, var, a, order) ==
    LET neighbors_to_check == neighbors(var) \ DOMAIN a
        count == [i \in 1..Len(order) |->
                    CountOver(doms, var, order[i], neighbors_to_check)]
        place == [i \in 1..Len(order) |->
                    1 + Cardinality({j \in 1..Len(order) :
                            \/ count[j] < count[i]
                            \/ count[j] = count[i] /\ j < i})]
    IN  [p \in 1..Len(order) |->
            order[CHOOSE i \in 1..Len(order) : place[i] = p]]

\* select_unassigned_variable(assignment) iterating crossword.variables in
\* `order`: the first unassigned variable whose number of neighbours exceeds
\* the running threshold replaces the selection.  NoVar: selected_variable
\* was never bound and the return raises UnboundLocalError.
RECURSIVE SelectFrom(_, _, _, _, _)
SelectFrom(order, k, a, threshold, selected_variable) ==
    IF k > Len(order) THEN selected_variable
    ELSE LET variable == order[k]
             number_of_neighbors == Cardinality(neighbors(variable))
         IN  IF variable \notin DOMAIN a /\ number_of_neighbors > threshold
             THEN SelectFrom(order, k + 1, a, number_of_neighbors, variable)
             ELSE SelectFrom(order, k + 1, a, threshold, selected_variable)

select_unassigned_variable(a, order) == SelectFrom(order, 1, a, 0, NoVar)

\* Mutant: the arc is appended without the membership test.
AppendAlways(arcs, arc) == Append(arcs, arc)

\* arcs.append(arc) unless arc is already in arcs.
AppendNew(arcs, arc) ==
    IF arc \in Range(arcs) THEN arcs ELSE Append(arcs, arc)

\* create_arcs(): for every variable (in `vorder`) and each of its neighbours
\* (in norder[var]) the arc (var, neighbour).
RECURSIVE ArcsFrom(_, _, _, _, _)
ArcsFrom(vorder, norder, k, i, arcs) ==
    IF k > Len(vorder) THEN arcs
    ELSE IF i > Len(norder[vorder[k]])
    THEN ArcsFrom(vorder, norder, k + 1, 1, arcs)
    ELSE ArcsFrom(vorder, norder, k, i + 1,
                  AppendNew(arcs, <<vorder[k], norder[vorder[k]][i]>>))

create_arcs_all(vorder, norder) == ArcsFrom(vorder, norder, 1, 1, <<>>)

\* create_arcs(var, assignment): the arc (neighbour, var) for each neighbour
\* of var that is not in the assignment, in `norder`.
RECURSIVE ArcsInto(_, _, _, _)
ArcsInto(var, norder, i, arcs) ==
    IF i > Len(norder) THEN arcs
    ELSE ArcsInto(var, norder, i + 1, AppendNew(arcs, <<norder[i], var>>))

create_arcs_var(var, norder) == ArcsInto(var, norder, 1, <<>>)

\* The appends of ac3's inner loop: (z, x) for z in `zorder` unless queued.
RECURSIVE Enqueue(_, _, _, _)
Enqueue(q, x, zorder, i) ==
    IF i > Len(zorder) THEN q
    ELSE Enqueue(AppendNew(q, <<zorder[i], x>>), x, zorder, i + 1)

\* Mutant: the last arc is read but left on the queue.
QueuePeek(q) == q

\* What queue.pop() leaves on the queue.
QueuePop(q) == SubSeq(q, 1, Len(q) - 1)

Put(a, var, value) ==
    [v \in DOMAIN a \cup {var} |-> IF v = var THEN value ELSE a[v]]

\* Mutant: the variable is left in the assignment.
PopNothing(a, var) == a

Pop(a, var) == [v \in DOMAIN a \ {var} |-> a[v]]

EmptyAssignment == [v \in {} |-> None]

NoConsistent == [called |-> FALSE, a |-> EmptyAssignment, ret |-> FALSE]

NoSelect == [called |-> FALSE, a |-> EmptyAssignment, doms |-> <<>>,
             ret |-> NoVar]

NoOrder == [called |-> FALSE, var |-> NoVar, a |-> EmptyAssignment,
            doms |-> <<>>, ret |-> <<>>]

NoRevise == [x |-> NoVar, y |-> NoVar, before |-> {}, other |-> {},
             after |-> {}, revised |-> FALSE, raised |-> FALSE]

----------------------------------------------------------------------------
(* solve() as a state machine *)

WordLists == {ws \in SUBSET Pool : Cardinality(ws) <= MaxWords}

Puzzle(sh, ws) ==
    [variables |-> sh.variables, length |-> sh.length,
     overlaps |-> sh.overlaps, words |-> ws]

Puzzles == {Puzzle(sh, ws) : sh \in Shapes, ws \in WordLists}

\* For each variable an order of iteration of its neighbours.
NeighborOrders ==
    {norder \in [crossword.variables ->
                    UNION {Perms(neighbors(v)) : v \in crossword.variables}] :
        \A v \in crossword.variables : norder[v] \in Perms(neighbors(v))}

\* __init__: every domain is a copy of the word list; solve() not yet begun.
Init ==
    /\ crossword \in Puzzles
    /\ domains = [var \in crossword.variables |-> crossword.words]
    /\ assignment = EmptyAssignment
    /\ pc = "node"
    /\ queue = <<>>
    /\ ac3Kind = "none"
    /\ ac3Result = TRUE
    /\ emptied = FALSE
    /\ lastRevise = NoRevise
    /\ lastConsistent = NoConsistent
    /\ lastSelect = NoSelect
    /\ lastOrder = NoOrder
    /\ stack = <<>>
    /\ result = "pending"

\* solve(): self.enforce_node_consistency()
EnforceNodeConsistency ==
    /\ pc = "node"
    /\ domains' = enforce_node_consistency(domains)
    /\ pc' = "arcs"
    /\ UNCHANGED <<crossword, assignment, queue, ac3Kind, ac3Result, emptied,
                   lastRevise, lastConsistent, lastSelect,
                   lastOrder, stack, result>>

\* solve(): self.ac3() with arcs = None: queue = self.create_arcs()
Ac3Begin ==
    /\ pc = "arcs"
    /\ \E vorder \in Perms(crossword.variables) :
       \E norder \in NeighborOrders :
          queue' = create_arcs_all(vorder, norder)
    /\ ac3Kind' = "initial"
    /\ emptied' = FALSE
    /\ pc' = "ac3"
    /\ UNCHANGED <<crossword, domains, assignment, ac3Result, lastRevise,
                   lastConsistent, lastSelect,
                   lastOrder, stack, result>>

\* One turn of ac3's while loop: pop the last arc, revise it, return False
\* when the revision was reported and left domains[x] empty, else append the
\* arcs (z, x).  An exception raised by revise leaves ac3 and solve.
Ac3Revise ==
    /\ pc = "ac3"
    /\ queue # <<>>
    /\ LET arc  == queue[Len(queue)]
           x    == arc[1]
           y    == arc[2]
           rest == QueuePop(queue)
       IN  \E r \in {revise(domains, x, y, order) :
                         order \in Perms(domains[x])} :
           \E zorder \in Perms(neighbors(x) \ {y}) :
                  /\ domains' = [domains EXCEPT ![x] = r.dom]
                  /\ lastRevise' = [x |-> x, y |-> y, before |-> domains[x],
                                    other |-> domains[y], after |-> r.dom,
                                    revised |-> r.revised, raised |-> r.raised]
                  /\ emptied' = (emptied \/ (domains[x] # {} /\ r.dom = {}))
                  /\ IF r.raised
                     THEN /\ queue' = rest
                          /\ pc' = "done"
                          /\ result' = "error"
                          /\ UNCHANGED ac3Result
                     ELSE IF r.revised /\ Cardinality(r.dom) = 0
                     THEN /\ ac3Result' = FALSE
                          /\ queue' = <<>>
                          /\ pc' = "ac3ret"
                          /\ UNCHANGED result
                     ELSE /\ queue' = IF r.revised
                                      THEN Enqueue(rest, x, zorder, 1)
                                      ELSE rest
                          /\ pc' = "ac3"
                          /\ UNCHANGED <<ac3Result, result>>
    /\ UNCHANGED <<crossword, assignment, ac3Kind, lastConsistent, lastSelect,
                   lastOrder, stack>>

\* ac3: the queue is empty, return True.
Ac3Exit ==
    /\ pc = "ac3"
    /\ queue = <<>>
    /\ ac3Result' = TRUE
    /\ pc' = "ac3ret"
    /\ UNCHANGED <<crossword, domains, assignment, queue, ac3Kind, emptied,
                   lastRevise, lastConsistent, lastSelect,
                   lastOrder, stack, result>>

\* solve(): the value of self.ac3() is dropped; return self.backtrack(dict())
SolveBacktrack ==
    /\ pc = "ac3ret"
    /\ ac3Kind = "initial"
    /\ pc' = "enter"
    /\ UNCHANGED <<crossword, domains, assignment, queue, ac3Kind, ac3Result,
                   emptied, lastRevise, lastConsistent, lastSelect,
                   lastOrder, stack, result>>

\* backtrack(assignment) up to its for loop: a complete assignment is
\* returned through every caller; else a variable is selected and its values
\* ordered.
BacktrackEnter ==
    /\ pc = "enter"
    /\ IF assignment_complete(assignment)
       THEN /\ pc' = "done"
            /\ result' = "assignment"
            /\ UNCHANGED <<stack, lastSelect, lastOrder>>
       ELSE \E var \in {select_unassigned_variable(assignment, vorder) :
                           vorder \in Perms(crossword.variables)} :
              /\ lastSelect' = [called |-> TRUE, a |-> assignment,
                                doms |-> domains, ret |-> var]
              /\ IF var = NoVar
                 THEN /\ pc' = "done"
                      /\ result' = "error"
                      /\ UNCHANGED <<stack, lastOrder>>
                 ELSE \E values \in {order_domain_values(domains, var,
                                                         assignment, order) :
                                        order \in Perms(domains[var])} :
                        /\ lastOrder' = [called |-> TRUE, var |-> var,
                                         a |-> assignment, doms |-> domains,
                                         ret |-> values]
                        /\ stack' = Append(stack,
                                      [var |-> var,
                                       values |-> values,
                                       domains_backup |-> None,
                                       entry_domains |-> domains,
                                       entry_assignment |-> assignment])
                        /\ pc' = "loop"
                        /\ UNCHANGED result
    /\ UNCHANGED <<crossword, domains, assignment, queue, ac3Kind, ac3Result,
                   emptied, lastRevise, lastConsistent>>

\* One turn of backtrack's for loop up to the recursive call: assign the next
\* value; if the assignment is not consistent pop it and go on; else, when
\* there are arcs, save the domains, narrow every assigned variable's domain
\* to its word and run ac3 on the arcs; then recurse.
TryValue ==
    /\ pc = "loop"
    /\ stack[Len(stack)].values # <<>>
    /\ LET frame == stack[Len(stack)]
           var   == frame.var
           value == Head(frame.values)
           a1    == Put(assignment, var, value)
       IN  IF ~consistent(a1)
           THEN /\ assignment' = Pop(a1, var)
                /\ stack' = [stack EXCEPT ![Len(stack)].values = Tail(frame.values)]
                /\ UNCHANGED <<domains, queue, ac3Kind, emptied, pc>>
           ELSE \E norder \in Perms(neighbors(var) \ DOMAIN a1) :
                  LET arcs == create_arcs_var(var, norder)
                  IN  /\ assignment' = a1
                      /\ IF arcs # <<>>
                         THEN /\ stack' = [stack EXCEPT
                                    ![Len(stack)].values = Tail(frame.values),
                                    ![Len(stack)].domains_backup = domains]
                              /\ domains' = [v \in crossword.variables |->
                                    IF v \in DOMAIN a1 THEN {a1[v]}
                                    ELSE domains[v]]
                              /\ queue' = arcs
                              /\ ac3Kind' = "inference"
                              /\ emptied' = FALSE
                              /\ pc' = "ac3"
                         ELSE /\ stack' = [stack EXCEPT
                                    ![Len(stack)].values = Tail(frame.values)]
                              /\ pc' = "enter"
                              /\ UNCHANGED <<domains, queue, ac3Kind, emptied>>
    /\ lastConsistent' = [called |-> TRUE,
                          a |-> Put(assignment, stack[Len(stack)].var,
                                    Head(stack[Len(stack)].values)),
                          ret |-> consistent(Put(assignment, stack[Len(stack)].var,
                                                 Head(stack[Len(stack)].values)))]
    /\ UNCHANGED <<crossword, ac3Result, lastRevise, lastSelect, lastOrder,
                   result>>

\* backtrack: the inference ac3 returned; on False the domains are restored
\* from domains_backup; then result = self.backtrack(assignment).
InferenceReturn ==
    /\ pc = "ac3ret"
    /\ ac3Kind = "inference"
    /\ domains' = IF ac3Result = FALSE
                  THEN stack[Len(stack)].domains_backup
                  ELSE domains
    /\ pc' = "enter"
    /\ UNCHANGED <<crossword, assignment, queue, ac3Kind, ac3Result, emptied,
                   lastRevise, lastConsistent, lastSelect,
                   lastOrder, stack, result>>

\* backtrack: the for loop is exhausted, return None.  The caller, if any,
\* gets result = None, pops its own variable and goes on with its loop.
BacktrackFail ==
    /\ pc = "loop"
    /\ stack[Len(stack)].values = <<>>
    /\ LET callers == SubSeq(stack, 1, Len(stack) - 1)
       IN  /\ stack' = callers
           /\ IF callers = <<>>
              THEN /\ pc' = "done"
                   /\ result' = "none"
                   /\ UNCHANGED assignment
              ELSE /\ assignment' = Pop(assignment, callers[Len(callers)].var)
                   /\ pc' = "loop"
                   /\ UNCHANGED result
    /\ UNCHANGED <<crossword, domains, queue, ac3Kind, ac3Result, emptied,
                   lastRevise, lastConsistent, lastSelect,
                   lastOrder>>

Next ==
    \/ EnforceNodeConsistency
    \/ Ac3Begin
    \/ Ac3Revise
    \/ Ac3Exit
    \/ SolveBacktrack
    \/ BacktrackEnter
    \/ TryValue
    \/ InferenceReturn
    \/ BacktrackFail

Spec == Init /\ [][Next]_vars

\* solve() runs to its return or its exception: nothing else is scheduled.
FairSpec == Spec /\ WF_vars(Next)

----------------------------------------------------------------------------
(* consistent(), order_domain_values() and revise() called on their own:   *)
(* one call on a freshly constructed CrosswordCreator, on any partial      *)
(* assignment of words of the word list                                    *)

Assignments ==
    UNION {[D -> crossword.words] : D \in SUBSET crossword.variables}

OpInit ==
    /\ crossword \in Puzzles
    /\ domains = [var \in crossword.variables |-> crossword.words]
    /\ assignment = EmptyAssignment
    /\ pc = "op"
    /\ queue = <<>>
    /\ ac3Kind = "none"
    /\ ac3Result = TRUE
    /\ emptied = FALSE
    /\ lastRevise = NoRevise
    /\ lastConsistent = NoConsistent
    /\ lastSelect = NoSelect
    /\ lastOrder = NoOrder
    /\ stack = <<>>
    /\ result = "pending"

CallConsistent ==
    /\ pc = "op"
    /\ \E a \in Assignments :
          lastConsistent' = [called |-> TRUE, a |-> a, ret |-> consistent(a)]
    /\ pc' = "called"
    /\ UNCHANGED <<crossword, domains, assignment, queue, ac3Kind,
                   ac3Result, emptied, lastRevise, lastSelect, lastOrder,
                   stack, result>>

\* order_domain_values(var, assignment) called on the node-consistent
\* domains, for any unassigned var and any assignment of the other variables.
CallOrderDomainValues ==
    /\ pc = "op"
    /\ \E var \in crossword.variables : \E a \in Assignments :
          /\ var \notin DOMAIN a
          /\ LET doms == enforce_node_consistency(domains)
             IN  \E order \in Perms(doms[var]) :
                    lastOrder' = [called |-> TRUE, var |-> var, a |-> a,
                                  doms |-> doms,
                                  ret |-> order_domain_values(doms, var, a,
                                                              order)]
    /\ pc' = "called"
    /\ UNCHANGED <<crossword, domains, assignment, queue, ac3Kind,
                   ac3Result, emptied, lastRevise, lastConsistent, lastSelect,
                   stack, result>>

\* revise(x, y) called on two variables that do not cross, with any words of
\* the right lengths in the two domains.
CallRevise ==
    /\ pc = "op"
    /\ \E x \in crossword.variables : \E y \in crossword.variables \ {x} :
          /\ crossword.overlaps[<<x, y>>] = None
          /\ LET nc == enforce_node_consistency(domains)
             IN  \E dx \in SUBSET nc[x] : \E dy \in SUBSET nc[y] :
                 \E order \in Perms(dx) :
                    LET doms == [nc EXCEPT ![x] = dx, ![y] = dy]
                        r    == revise(doms, x, y, order)
                    IN  lastRevise' = [x |-> x, y |-> y, before |-> dx,
                                       other |-> dy, after |-> r.dom,
                                       revised |-> r.revised,
                                       raised |-> r.raised]
    /\ pc' = "called"
    /\ UNCHANGED <<crossword, domains, assignment, queue, ac3Kind,
                   ac3Result, emptied, lastConsistent, lastSelect, lastOrder,
                   stack, result>>

OpNext ==
    \/ CallConsistent
    \/ CallOrderDomainValues
    \/ CallRevise

OpSpec == OpInit /\ [][OpNext]_vars

----------------------------------------------------------------------------
(* What the claims speak of *)

Complete(a) == DOMAIN a = crossword.variables

Distinct(a) == \A u, v \in DOMAIN a : u # v => a[u] # a[v]

Fits(a) == \A v \in DOMAIN a : Len(a[v]) = crossword.length[v]

Agrees(a) ==
    \A u, v \in DOMAIN a :
        crossword.overlaps[<<u, v>>] # None =>
            a[u][crossword.overlaps[<<u, v>>][1] + 1] =
                a[v][crossword.overlaps[<<u, v>>][2] + 1]

HasSolution ==
    \E a \in [crossword.variables -> crossword.words] :
        Distinct(a) /\ Fits(a) /\ Agrees(a)

\* x's word w has a word of dy agreeing with it where x and y cross.
Supported(w, x, y, dy) ==
    \E u \in dy :
        w[crossword.overlaps[<<x, y>>][1] + 1] =
            u[crossword.overlaps[<<x, y>>][2] + 1]

ArcConsistent ==
    \A x, y \in crossword.variables :
        crossword.overlaps[<<x, y>>] # None =>
            \A w \in domains[x] : Supported(w, x, y, domains[y])

FixtureSat == Puzzle(TwoCross, {car, ace, dog})

FixtureUnsat == Puzzle(TwoCross, {cat, dog})

Returned == pc = "done" /\ result = "assignment"

----------------------------------------------------------------------------
(* Claims *)

\* C1: whenever solve() returns an assignment it is complete, its words are
\* pairwise distinct, each has its variable's length, and neighbouring
\* variables agree where they cross.
C1_ReturnedAssignmentSound ==
    Returned =>
        /\ Complete(assignment)
        /\ Distinct(assignment)
        /\ Fits(assignment)
        /\ Agrees(assignment)

\* C1 witness: solve() returned an assignment of the three crossing slots.
C1_Witness == Returned /\ crossword.variables = Chain.variables

\* C2 as claimed: solve() returns no-solution only when the puzzle has no
\* complete consistent assignment.
C2_NoneOnlyWhenUnsolvable ==
    (pc = "done" /\ result = "none") => ~HasSolution

\* C3 as claimed: on V1/V2 crossing at V1[1], V2[0] with {car, ace, dog},
\* solve() returns exactly {V1: car, V2: ace}.
C3_ExactlyCarAce ==
    (crossword = FixtureSat /\ pc = "done") =>
        /\ result = "assignment"
        /\ assignment = [v \in {"V1", "V2"} |-> IF v = "V1" THEN car ELSE ace]

\* C3 amended: on that puzzle solve() returns {V1: car, V2: ace} or
\* {V1: ace, V2: car}, and dog is the value of neither variable.
C3_CarAceEitherWay ==
    (crossword = FixtureSat /\ pc = "done") =>
        /\ result = "assignment"
        /\ \/ assignment = [v \in {"V1", "V2"} |-> IF v = "V1" THEN car ELSE ace]
           \/ assignment = [v \in {"V1", "V2"} |-> IF v = "V1" THEN ace ELSE car]
        /\ \A v \in DOMAIN assignment : assignment[v] # dog

\* C3 witness: solve() returned on that puzzle with car across.
C3_Witness ==
    /\ crossword = FixtureSat
    /\ Returned
    /\ assignment["V1"] = car

\* C4: on V1/V2 crossing at V1[1], V2[0] with {cat, dog}, solve() terminates
\* and returns no-solution.
C4_UnsatReturnsNone ==
    (crossword = FixtureUnsat) ~> (pc = "done" /\ result = "none")

\* C4 witness: solve() returned no-solution on that puzzle.
C4_Witness == crossword = FixtureUnsat /\ pc = "done" /\ result = "none"

\* C5 as claimed: after ac3() seeded with all arcs returns True, every word
\* of every domain has an agreeing word in each neighbour's domain.
C5_ArcConsistentAfterAc3 ==
    (pc = "ac3ret" /\ ac3Kind = "initial" /\ ac3Result = TRUE) => ArcConsistent

\* C6: ac3() returns False if and only if a revise call of that run removed
\* the last word of a domain.
C6_FalseIffEmptied ==
    pc = "ac3ret" => ((ac3Result = FALSE) <=> emptied)

\* C6 witness: an inference run of ac3 emptied a domain that held words and
\* returned False.
C6_Witness ==
    pc = "ac3ret" /\ emptied /\ ac3Result = FALSE /\ ac3Kind = "inference"

\* C7 as claimed: whenever ac3() returns True no domain is empty.
C7_TrueMeansNoEmptyDomain ==
    (pc = "ac3ret" /\ ac3Result = TRUE) =>
        \A v \in crossword.variables : domains[v] # {}

\* C8: after enforce_node_consistency() each domain is exactly the words of
\* the word list that have the variable's length.
C8_NodeConsistentExactly ==
    pc = "arcs" =>
        \A v \in crossword.variables :
            domains[v] = {w \in crossword.words : Len(w) = crossword.length[v]}

\* C8 witness: node consistency removed a word from one slot and kept one.
C8_Witness ==
    /\ pc = "arcs"
    /\ \E v \in crossword.variables :
          domains[v] # {} /\ domains[v] # crossword.words

\* C9: consistent(assignment) is true exactly when the assigned words are
\* pairwise distinct, each has its variable's length, and assigned
\* neighbours agree where they cross.
C9_ConsistentIff ==
    lastConsistent.called =>
        (lastConsistent.ret <=>
            /\ Distinct(lastConsistent.a)
            /\ Fits(lastConsistent.a)
            /\ Agrees(lastConsistent.a))

\* C9 witness: consistent() accepted cat for V1 alone although no word of
\* the list can cross it at V2, and nothing is assigned to V2.
C9_Witness ==
    /\ lastConsistent.called
    /\ lastConsistent.ret
    /\ crossword = FixtureUnsat
    /\ lastConsistent.a = [v \in {"V1"} |-> cat]

\* C10 as claimed: revise(x, y) removes exactly the words of domains[x] with
\* no agreeing word in domains[y], and returns True exactly when it removed
\* one.
C10_ReviseExactAndReported ==
    lastRevise.x # NoVar =>
        /\ lastRevise.after =
              {w \in lastRevise.before :
                  Supported(w, lastRevise.x, lastRevise.y, lastRevise.other)}
        /\ lastRevise.revised <=> (lastRevise.after # lastRevise.before)

\* C11: when the inference ac3 run for a tentatively assigned candidate
\* returns False, the next step of backtrack restores the domains to the
\* snapshot taken before the inference and does not call backtrack
\* recursively for that candidate.
C11_FailedInferenceSkipsCandidate ==
    [][(pc = "ac3ret" /\ ac3Kind = "inference" /\ ac3Result = FALSE) =>
          /\ domains' = stack[Len(stack)].domains_backup
          /\ pc' # "enter"]_vars

\* C12: at the start of every candidate's iteration of backtrack's for loop
\* the domains are the domains at entry to that invocation of backtrack.
C12_CandidatesSeeEntryDomains ==
    (pc = "loop" /\ stack[Len(stack)].values # <<>>) =>
        domains = stack[Len(stack)].entry_domains

\* C13: select_unassigned_variable returns an unassigned variable whose
\* domain is of minimal size among the unassigned variables and, among those
\* of minimal size, has the most neighbours.
C13_SelectMinimumRemainingValues ==
    (lastSelect.called /\ lastSelect.ret # NoVar) =>
        LET unassigned == crossword.variables \ DOMAIN lastSelect.a
            size(v)    == Cardinality(lastSelect.doms[v])
            ret        == lastSelect.ret
        IN  /\ ret \in unassigned
            /\ \A v \in unassigned : size(ret) <= size(v)
            /\ \A v \in unassigned :
                  size(v) = size(ret) =>
                      Cardinality(neighbors(v)) <= Cardinality(neighbors(ret))

\* C14: select_unassigned_variable returns an unassigned variable whenever
\* one exists, also when no unassigned variable has a neighbour, so that
\* backtrack never fails for lack of a selected variable.
C14_SelectionWellDefined ==
    /\ lastSelect.called =>
          lastSelect.ret \in crossword.variables \ DOMAIN lastSelect.a
    /\ result # "error"

\* C15: when the initial ac3 run returns False, the next step of solve
\* returns no-solution; backtrack is not invoked.
C15_FailedPropagationSkipsSearch ==
    [][(pc = "ac3ret" /\ ac3Kind = "initial" /\ ac3Result = FALSE) =>
          (pc' = "done" /\ result' = "none")]_vars

\* The number of (unassigned neighbour, word of its domain) pairs that
\* disagree with `value` for `var` at the overlap.
RuledOut(doms, var, a, value) ==
    Cardinality({pair \in (neighbors(var) \ DOMAIN a) \X crossword.words :
        /\ pair[2] \in doms[pair[1]]
        /\ Chr(value, crossword.overlaps[<<var, pair[1]>>][1]) #
             Chr(pair[2], crossword.overlaps[<<var, pair[1]>>][2])})

\* C16: order_domain_values returns every word of domains[var] exactly once,
\* in ascending order of the number of words it rules out in the domains of
\* the unassigned neighbours; assigned neighbours count for nothing.
C16_OrderedByRuledOut ==
    lastOrder.called =>
        LET ret == lastOrder.ret
            n(i) == RuledOut(lastOrder.doms, lastOrder.var, lastOrder.a, ret[i])
        IN  /\ Range(ret) = lastOrder.doms[lastOrder.var]
            /\ Len(ret) = Cardinality(lastOrder.doms[lastOrder.var])
            /\ \A i \in 1..Len(ret) : \A j \in i..Len(ret) : n(i) <= n(j)

\* A call that put a word ruling out less before one ruling out more, with an
\* assigned neighbour whose domain holds a word that disagrees with the first.
C16_Witness ==
    /\ lastOrder.called
    /\ Len(lastOrder.ret) >= 2
    /\ \E nb \in neighbors(lastOrder.var) \cap DOMAIN lastOrder.a :
          \E confront \in lastOrder.doms[nb] :
             Chr(lastOrder.ret[1],
                 crossword.overlaps[<<lastOrder.var, nb>>][1]) #
               Chr(confront, crossword.overlaps[<<lastOrder.var, nb>>][2])
    /\ RuledOut(lastOrder.doms, lastOrder.var, lastOrder.a, lastOrder.ret[1]) <
          RuledOut(lastOrder.doms, lastOrder.var, lastOrder.a,
                   lastOrder.ret[Len(lastOrder.ret)])

\* C17: revise(x, y) on two variables that do not cross changes nothing and
\* returns False, whatever the two domains hold.
C17_ReviseApartIsNoOp ==
    (lastRevise.x # NoVar /\
     crossword.overlaps[<<lastRevise.x, lastRevise.y>>] = None) =>
        /\ ~lastRevise.raised
        /\ lastRevise.after = lastRevise.before
        /\ lastRevise.revised = FALSE

\* The ordered pairs of variables that cross.
NeighbourPairs ==
    {pair \in crossword.variables \X crossword.variables :
        pair[2] \in neighbors(pair[1])}

\* C18: in every ac3 run, initial or inference, the queue never holds the
\* same ordered arc twice, so it is never longer than the number of ordered
\* pairs of neighbours.
C18_QueueHoldsEachArcOnce ==
    /\ \A i \in 1..Len(queue) : \A j \in 1..Len(queue) :
          queue[i] = queue[j] => i = j
    /\ Len(queue) <= Cardinality(NeighbourPairs)

\* An ac3 run in which a reported revision of (x, y) has put an arc (z, x)
\* back on the queue.
C18_Witness ==
    /\ pc = "ac3"
    /\ lastRevise.revised
    /\ \E z \in neighbors(lastRevise.x) \ {lastRevise.y} :
          queue # <<>> /\ queue[Len(queue)] = <<z, lastRevise.x>>

\* C19: every ac3 run, initial or inference, returns.
C19_Ac3Returns == (pc = "ac3") ~> (pc = "ac3ret")

\* An ac3 run that returned True after its last revision removed a word.
C19_Witness ==
    /\ pc = "ac3ret"
    /\ ac3Result = TRUE
    /\ lastRevise.x # NoVar
    /\ lastRevise.after # lastRevise.before

\* C20: when an invocation of backtrack is about to return failure, the
\* assignment is the assignment it was entered with; the same holds at the
\* head of every turn of its loop.
C20_FailureLeavesAssignment ==
    pc = "loop" => assignment = stack[Len(stack)].entry_assignment

\* An invocation entered with a variable assigned that has tried a candidate
\* and is about to return failure.
C20_Witness ==
    /\ pc = "loop"
    /\ stack[Len(stack)].values = <<>>
    /\ stack[Len(stack)].entry_assignment # EmptyAssignment
    /\ lastConsistent.called
    /\ DOMAIN lastConsistent.a # DOMAIN assignment

====
